---- MODULE Spec2Model ----
(***************************************************************************)
(* Model of the multidown download engine (src-tauri/src/engine):          *)
(* one task of the scheduler map, the runs started for it (worker pool,    *)
(* file writer, run task with its reaper), the snapshot writer             *)
(* (save_tasks / PersistedTask::from_task), and a process restart that     *)
(* reloads the snapshot (Scheduler::load_from).                            *)
(*                                                                         *)
(* Option<T> is modelled as a sequence of length 0 (None) or 1 (Some).     *)
(* A tokio Mutex is modelled by the identity of its holder (0 = free);     *)
(* lock().await is a guard on the mutex being free, try_lock() a test.     *)
(***************************************************************************)
EXTENDS Integers, Sequences, FiniteSets, Bags, TLC

\* ---------------------------------------------------------------- bounds
MaxTotal == 2
MaxConn == 2
MaxRuns == 2
MaxSaves == 1
MaxResumeRanges == 1
MaxResumeConn == 1
MaxRestarts == 1
MaxSegTotal == 10
MaxSegN == 9
MaxNewTotal == 50
MaxConnArg == 40
MaxImport == 3
MaxParts == 2

\* ------------------------------------------------------ program constants
DEFAULT_CONNECTIONS == 8
ChannelCapacity == 32
WorkerCap == 32

\* ---------------------------------------------------------------- helpers
None == <<>>
Some(x) == <<x>>
IsSome(o) == o # <<>>
Get(o) == o[1]

Min(a, b) == IF a < b THEN a ELSE b
Max(a, b) == IF a > b THEN a ELSE b

Runs == 1..MaxRuns
Workers == 1..MaxConn
\* A save_tasks call is identified by its caller: a run (the call at the end
\* of its run task) or the number of the command or timer tick that made it.
Savers == 1..(MaxRuns + MaxSaves + 1)

\* The save_tasks call that ends remove_task or clear_completed_tasks: the one
\* task of the model leaves the map at most once.
RemoveSaver == MaxRuns + MaxSaves + 1

TaskStatus == {"pending", "downloading", "paused", "completed", "failed", "cancelled"}

\* static_segments(total, n): n.min(total).max(1) pieces of total / n bytes,
\* the last one ending at total - 1; a piece with start > end is dropped.
StaticSegN(total, n) == Max(Min(n, total), 1)

StaticSegChunkCeil(total, n) == (total + StaticSegN(total, n) - 1) \div StaticSegN(total, n)

StaticSegChunk(total, n) == total \div StaticSegN(total, n)

StaticSegPieceOverlap(total, n, i) ==
    LET m == StaticSegN(total, n)
        chunk == StaticSegChunk(total, n)
    IN <<i * chunk, IF i = m - 1 THEN Max(total - 1, 0) ELSE (i + 1) * chunk>>

StaticSegPiece(total, n, i) ==
    LET m == StaticSegN(total, n)
        chunk == StaticSegChunk(total, n)
        start == i * chunk
        end == IF i = m - 1 THEN Max(total - 1, 0) ELSE (i + 1) * chunk - 1
    IN <<start, end>>
RECURSIVE StaticSegFrom(_, _, _)
StaticSegFrom(total, n, i) ==
    IF i >= StaticSegN(total, n) THEN <<>>
    ELSE LET p == StaticSegPiece(total, n, i)
         IN (IF p[1] <= p[2] THEN <<p>> ELSE <<>>) \o StaticSegFrom(total, n, i + 1)
static_segmentsOne(total, n) ==
    IF n = 0 \/ total = 0 THEN <<>> ELSE << <<0, total - 1>> >>

static_segments(total, n) ==
    IF n = 0 \/ total = 0 THEN <<>> ELSE StaticSegFrom(total, n, 0)

NewPendingWhole(sr, tb) ==
    IF IsSome(tb) /\ Get(tb) > 0 THEN << <<0, Get(tb) - 1>> >> ELSE <<>>

\* Task::new: the pending queue computed at creation.
NewPending(sr, tb) ==
    IF sr
    THEN LET t == IF IsSome(tb) THEN Get(tb) ELSE 0
         IN IF t > 0 THEN static_segments(t, DEFAULT_CONNECTIONS) ELSE <<>>
    ELSE IF IsSome(tb) /\ Get(tb) > 0 THEN << <<0, Max(Get(tb) - 1, 0)>> >> ELSE <<>>

NWorkersUncapped(sr, mc) ==
    IF sr THEN Max(IF IsSome(mc) THEN Get(mc) ELSE 8, 1) ELSE 1

\* start_download: n_workers; mc is Option<usize>.
NWorkers(sr, mc) ==
    IF sr THEN Min(Max(IF IsSome(mc) THEN Get(mc) ELSE 8, 1), WorkerCap) ELSE 1

\* The origin's content: the byte at offset i is i + 1 (0 is a hole of the
\* sparse target file).
Bytes(s, e) == [k \in 1..(e - s + 1) |-> s + k]
Zeros(n) == [k \in 1..n |-> 0]

\* Error::to_string (thiserror): "HTTP request failed: {0}".
ErrText(detail) == "HTTP request failed: " \o detail

\* seek(Start(off)) followed by write_all(data) on a file image f.
WriteAt(f, off, data) ==
    IF Len(data) = 0 THEN f
    ELSE [i \in 1..Max(Len(f), off + Len(data)) |->
            IF i > off /\ i <= off + Len(data) THEN data[i - off]
            ELSE IF i <= Len(f) THEN f[i] ELSE 0]

RECURSIVE SumLen(_)
SumLen(segs) ==
    IF segs = <<>> THEN 0
    ELSE (Head(segs)[2] - Head(segs)[1] + 1) + SumLen(Tail(segs))

\* ------------------------------------------------------------------ state
VARIABLES
    server,          \* how the origin answers a Range request
    inMap,           \* the task is in Scheduler.tasks
    total_bytes,     \* Task.total_bytes : Option<u64>
    supports_range,  \* Task.supports_range
    status,          \* Task.status
    pending,         \* Task.pending_segments
    downloaded,      \* Task.downloaded
    error_message,   \* Task.error_message : Option<String>
    statusLock,      \* holder of Task.status mutex across awaits (a run), 0 = free
    pendLock,        \* holder of Task.pending_segments mutex (a saver), 0 = free
    mapLock,         \* holder of Scheduler.tasks mutex (a saver), 0 = free
    nruns,           \* runs started in this process
    runPc,           \* position of each run task (the closure spawned by start_download)
    runSave,         \* scheduler_for_save.is_some() of each run
    wpc,             \* position of each worker of each run
    wseg,            \* the range a worker holds
    wrPc,            \* position of each run's file writer
    chan,            \* each run's writer channel
    evs,             \* download-finished events emitted by each run
    reqs,            \* bag of Range requests issued in this process
    file,            \* content of the destination file
    snapFile,        \* content of the snapshot file: list of PersistedTask
    nsaves,          \* save_tasks calls made by pause_task and the timer in this process
    spc,             \* position of each save_tasks call
    srec,            \* the PersistedTask a save_tasks call is building
    loaded,          \* the snapshot list this process was loaded from
    restarts,        \* process restarts so far
    ret,             \* the command executed by the last step, and its result
    fnArg,           \* arguments of a function called on its own (no scheduler around it)
    fnRes            \* what that call returned: None before the call, Some(value) after

taskVars == <<total_bytes, supports_range, status, pending, downloaded, error_message>>
lockVars == <<statusLock, pendLock, mapLock>>
runVars == <<nruns, runPc, runSave, wpc, wseg, wrPc, chan, evs, reqs>>
saveVars == <<snapFile, nsaves, spc, srec>>
vars == <<server, inMap, taskVars, lockVars, runVars, saveVars, file, loaded, restarts, ret,
          fnArg, fnRes>>

NoSeg == <<>>
EmptyRec == [status |-> "pending", pending |-> <<>>, downloaded |-> 0]

\* ret is the command executed by the last step and its result; a step of a
\* spawned task (worker, writer, run task, save) executes no command.
Ret(op, ok) == [op |-> op, ok |-> ok]
NoRet == [op |-> "none", ok |-> TRUE]

NoRuns ==
    /\ nruns = 0
    /\ runPc = [r \in Runs |-> "idle"]
    /\ runSave = [r \in Runs |-> FALSE]
    /\ wpc = [r \in Runs |-> [w \in Workers |-> "none"]]
    /\ wseg = [r \in Runs |-> [w \in Workers |-> NoSeg]]
    /\ wrPc = [r \in Runs |-> "none"]
    /\ chan = [r \in Runs |-> <<>>]
    /\ evs = [r \in Runs |-> <<>>]
    /\ reqs = EmptyBag

NoSavers ==
    /\ nsaves = 0
    /\ spc = [s \in Savers |-> "idle"]
    /\ srec = [s \in Savers |-> EmptyRec]

\* Scheduler::new(Some(path)) on an empty snapshot file, against an origin
\* whose behaviour is one of servers.
InitOn(servers) ==
    /\ server \in servers
    /\ inMap = FALSE
    /\ total_bytes = None
    /\ supports_range = FALSE
    /\ status = "pending"
    /\ pending = <<>>
    /\ downloaded = 0
    /\ error_message = None
    /\ statusLock = 0 /\ pendLock = 0 /\ mapLock = 0
    /\ NoRuns
    /\ NoSavers
    /\ file = <<>>
    /\ snapFile = <<>>
    /\ loaded = <<>>
    /\ restarts = 0
    /\ ret = NoRet
    /\ fnArg = <<>>
    /\ fnRes = None

\* PersistedTask::from_task(t): the record built from the values read from
\* the task t.
from_task(t) ==
    [total_bytes |-> t.total_bytes, supports_range |-> t.supports_range,
     status |-> t.status, pending_segments |-> t.pending,
     downloaded_bytes |-> t.downloaded]

\* The record from_task builds from the status st, the queue pend and the
\* counter dl it has read from the task.
Persisted(st, pend, dl) ==
    from_task([total_bytes |-> total_bytes, supports_range |-> supports_range,
               status |-> st, pending |-> pend, downloaded |-> dl])

\* --------------------------------------------------------------- commands

\* Scheduler::create_task with a probe result (sr, tb): Task::new, insert into
\* the map, save_tasks.  The new task is unknown to every other process until
\* the call returns, so the trailing snapshot is taken in the same step.
create_task(sr, tb) ==
    /\ ~inMap /\ restarts = 0 /\ mapLock = 0
    /\ spc[RemoveSaver] = "idle"
    /\ inMap' = TRUE
    /\ total_bytes' = tb
    /\ supports_range' = sr
    /\ status' = "pending"
    /\ pending' = NewPending(sr, tb)
    /\ downloaded' = 0
    /\ error_message' = None
    /\ snapFile' = << [total_bytes |-> tb, supports_range |-> sr, status |-> "pending",
                       pending_segments |-> NewPending(sr, tb), downloaded_bytes |-> 0] >>
    /\ ret' = Ret("create", TRUE)
    /\ UNCHANGED <<server, fnArg, fnRes, lockVars, runVars, nsaves, spc, srec, file, loaded, restarts>>

StartAllowedAlsoDownloading(st) == st = "pending" \/ st = "paused" \/ st = "downloading"

\* The status guard of start_download (lines 107-113).
StartAllowed(st) == st = "pending" \/ st = "paused"

\* start_download as it would be if a new run counted from zero.
start_download_reset(mc, sfs) ==
    /\ mapLock = 0
    /\ IF ~inMap
       THEN /\ ret' = Ret("start", FALSE)
            /\ UNCHANGED <<taskVars, runVars>>
       ELSE /\ statusLock = 0
            /\ IF ~StartAllowed(status)
               THEN /\ ret' = Ret("start", FALSE)
                    /\ UNCHANGED <<taskVars, runVars>>
               ELSE /\ nruns < MaxRuns
                    /\ LET r == nruns + 1
                           n == NWorkers(supports_range, mc)
                       IN /\ status' = "downloading"
                          /\ downloaded' = 0
                          /\ nruns' = r
                          /\ runPc' = [runPc EXCEPT ![r] = "join"]
                          /\ runSave' = [runSave EXCEPT ![r] = sfs]
                          /\ wrPc' = [wrPc EXCEPT ![r] = "create"]
                          /\ wpc' = [wpc EXCEPT ![r] =
                                       [w \in Workers |-> IF w <= n THEN "top" ELSE "none"]]
                          /\ ret' = Ret("start", TRUE)
                          /\ UNCHANGED <<total_bytes, supports_range, pending,
                                         error_message, wseg, chan, evs, reqs>>
    /\ UNCHANGED <<server, fnArg, fnRes, inMap, lockVars, saveVars, file, loaded, restarts>>

\* Scheduler::start_download(task_id, app_handle, sfs, mc, _): the run r it
\* spawns consists of the writer, the run task and n_workers workers.
start_download(mc, sfs) ==
    /\ mapLock = 0
    /\ IF ~inMap
       THEN /\ ret' = Ret("start", FALSE)
            /\ UNCHANGED <<taskVars, runVars>>
       ELSE /\ statusLock = 0
            /\ IF ~StartAllowed(status)
               THEN /\ ret' = Ret("start", FALSE)
                    /\ UNCHANGED <<taskVars, runVars>>
               ELSE /\ nruns < MaxRuns
                    /\ LET r == nruns + 1
                           n == NWorkers(supports_range, mc)
                       IN /\ status' = "downloading"
                          /\ nruns' = r
                          /\ runPc' = [runPc EXCEPT ![r] = "join"]
                          /\ runSave' = [runSave EXCEPT ![r] = sfs]
                          /\ wrPc' = [wrPc EXCEPT ![r] = "create"]
                          /\ wpc' = [wpc EXCEPT ![r] =
                                       [w \in Workers |-> IF w <= n THEN "top" ELSE "none"]]
                          /\ ret' = Ret("start", TRUE)
                          /\ UNCHANGED <<total_bytes, supports_range, pending, downloaded,
                                         error_message, wseg, chan, evs, reqs>>
    /\ UNCHANGED <<server, fnArg, fnRes, inMap, lockVars, saveVars, file, loaded, restarts>>

\* Scheduler::resume_task: forwards to start_download.
resume_task(mc, sfs) == start_download(mc, sfs)

PauseStatusAlways(st) == "paused"

\* The status pause_task stores (lines 185-187).
PauseStatus(st) == IF st = "downloading" THEN "paused" ELSE st

\* Scheduler::pause_task: Downloading -> Paused, then save_tasks.
pause_task ==
    /\ mapLock = 0
    /\ IF ~inMap
       THEN /\ ret' = Ret("pause", FALSE)
            /\ UNCHANGED <<status, nsaves, spc>>
       ELSE /\ statusLock = 0
            /\ nsaves < MaxSaves
            /\ status' = PauseStatus(status)
            /\ nsaves' = nsaves + 1
            /\ spc' = [spc EXCEPT ![MaxRuns + nsaves + 1] = "lockMap"]
            /\ ret' = Ret("pause", TRUE)
    /\ UNCHANGED <<server, fnArg, fnRes, inMap, total_bytes, supports_range, pending, downloaded,
                   error_message, lockVars, runVars, snapFile, srec, file, loaded, restarts>>

\* Scheduler::cancel_task.
cancel_task ==
    /\ mapLock = 0
    /\ IF ~inMap
       THEN /\ ret' = Ret("cancel", FALSE)
            /\ UNCHANGED status
       ELSE /\ statusLock = 0
            /\ status' = "cancelled"
            /\ ret' = Ret("cancel", TRUE)
    /\ UNCHANGED <<server, fnArg, fnRes, inMap, total_bytes, supports_range, pending, downloaded,
                   error_message, lockVars, runVars, saveVars, file, loaded, restarts>>

\* Scheduler::remove_task: cancel, remove from the map, save_tasks.
remove_task ==
    /\ mapLock = 0
    /\ IF ~inMap
       THEN /\ ret' = Ret("remove", FALSE)
            /\ UNCHANGED <<inMap, status, spc>>
       ELSE /\ statusLock = 0
            /\ status' = "cancelled"
            /\ inMap' = FALSE
            /\ spc' = [spc EXCEPT ![RemoveSaver] = "lockMap"]
            /\ ret' = Ret("remove", TRUE)
    /\ UNCHANGED <<server, fnArg, fnRes, total_bytes, supports_range, pending, downloaded,
                   error_message, lockVars, runVars, snapFile, nsaves, srec, file, loaded,
                   restarts>>

\* The status clear_completed_tasks sees (line 250): try_lock on the status
\* mutex, Pending when it is held.
ClearSees(held, st) == IF held THEN "pending" ELSE st

\* Scheduler::clear_completed_tasks: returns the number n of tasks removed.
clear_completed_tasks ==
    /\ mapLock = 0
    /\ IF inMap /\ ClearSees(statusLock # 0, status) = "completed"
       THEN /\ inMap' = FALSE
            /\ spc' = [spc EXCEPT ![RemoveSaver] = "lockMap"]
            /\ ret' = [op |-> "clear", ok |-> TRUE, n |-> 1]
       ELSE /\ ret' = [op |-> "clear", ok |-> TRUE, n |-> 0]
            /\ UNCHANGED <<inMap, spc>>
    /\ UNCHANGED <<server, fnArg, fnRes, taskVars, lockVars, runVars, snapFile, nsaves, srec,
                   file, loaded, restarts>>

\* task_to_info: the status it reports (line 276): try_lock on the status
\* mutex, Pending when it is held.
TaskInfoStatus(held, st) == IF held THEN "pending" ELSE st

\* Scheduler::get_task (list_downloads does the same for every task of the
\* map): the TaskInfo's status, or None when the task is not in the map.
get_task ==
    /\ mapLock = 0
    /\ ret' = IF inMap
              THEN [op |-> "get", ok |-> TRUE,
                    status |-> TaskInfoStatus(statusLock # 0, status)]
              ELSE [op |-> "get", ok |-> FALSE, status |-> "none"]
    /\ UNCHANGED <<server, fnArg, fnRes, inMap, taskVars, lockVars, runVars, saveVars, file,
                   loaded, restarts>>

\* ---------------------------------------------------------------- workers

Active(r, w) == wpc[r][w] \in {"top", "take", "fetch", "send", "fail"}

\* What fetch_range_with_options returns for the range seg on success: the
\* requested bytes, one byte less, or (a server that ignores Range and answers
\* 200) the whole body.
Resp(seg) ==
    CASE server = "exact" -> Bytes(seg[1], seg[2])
      [] server = "short" -> Bytes(seg[1], seg[2] - 1)
      [] server = "full" -> Bytes(0, Get(total_bytes) - 1)

\* The statuses on which run_worker leaves its loop (line 302).
WorkerStops(st) == st = "paused" \/ st = "cancelled" \/ st = "completed"

\* run_worker, loop head: read the status under its mutex.
WorkerTop(r, w) ==
    /\ wpc[r][w] = "top"
    /\ statusLock = 0
    /\ wpc' = [wpc EXCEPT ![r][w] = IF WorkerStops(status) THEN "done" ELSE "take"]
    /\ ret' = NoRet
    /\ UNCHANGED <<server, fnArg, fnRes, inMap, taskVars, lockVars, nruns, runPc, runSave, wseg, wrPc,
                   chan, evs, reqs, saveVars, file, loaded, restarts>>

WorkerTakeBack(r, w) ==
    /\ wpc[r][w] = "take"
    /\ IF pendLock # 0 \/ pending = <<>>
       THEN /\ wpc' = [wpc EXCEPT ![r][w] = "done"]
            /\ UNCHANGED <<pending, wseg, reqs>>
       ELSE /\ wpc' = [wpc EXCEPT ![r][w] = "fetch"]
            /\ wseg' = [wseg EXCEPT ![r][w] = pending[Len(pending)]]
            /\ pending' = SubSeq(pending, 1, Len(pending) - 1)
            /\ reqs' = reqs (+) SetToBag({pending[Len(pending)]})
    /\ ret' = NoRet
    /\ UNCHANGED <<server, fnArg, fnRes, inMap, total_bytes, supports_range, status, downloaded,
                   error_message, lockVars, nruns, runPc, runSave, wrPc, chan, evs,
                   saveVars, file, loaded, restarts>>

\* Task::take_next_segment: try_lock on the queue, then pop_front; None when
\* the mutex is held or the queue is empty.  The request for the range is
\* issued right after.
WorkerTake(r, w) ==
    /\ wpc[r][w] = "take"
    /\ IF pendLock # 0 \/ pending = <<>>
       THEN /\ wpc' = [wpc EXCEPT ![r][w] = "done"]
            /\ UNCHANGED <<pending, wseg, reqs>>
       ELSE /\ wpc' = [wpc EXCEPT ![r][w] = "fetch"]
            /\ wseg' = [wseg EXCEPT ![r][w] = Head(pending)]
            /\ pending' = Tail(pending)
            /\ reqs' = reqs (+) SetToBag({Head(pending)})
    /\ ret' = NoRet
    /\ UNCHANGED <<server, fnArg, fnRes, inMap, total_bytes, supports_range, status, downloaded,
                   error_message, lockVars, nruns, runPc, runSave, wrPc, chan, evs,
                   saveVars, file, loaded, restarts>>

\* fetch returned Ok(data): add_downloaded(data.len()).
WorkerFetchOk(r, w) ==
    /\ wpc[r][w] = "fetch"
    /\ downloaded' = downloaded + Len(Resp(wseg[r][w]))
    /\ wpc' = [wpc EXCEPT ![r][w] = "send"]
    /\ ret' = NoRet
    /\ UNCHANGED <<server, fnArg, fnRes, inMap, total_bytes, supports_range, status, pending,
                   error_message, lockVars, nruns, runPc, runSave, wseg, wrPc, chan, evs,
                   reqs, saveVars, file, loaded, restarts>>

\* tx.send((start, data)): fails when the writer has dropped the receiver.
WorkerSend(r, w) ==
    /\ wpc[r][w] = "send"
    /\ IF wrPc[r] \in {"create", "recv"}
       THEN /\ Len(chan[r]) < ChannelCapacity
            /\ chan' = [chan EXCEPT ![r] = Append(@, <<wseg[r][w][1], Resp(wseg[r][w])>>)]
            /\ wpc' = [wpc EXCEPT ![r][w] = "top"]
       ELSE /\ wpc' = [wpc EXCEPT ![r][w] = "done"]
            /\ UNCHANGED chan
    /\ wseg' = [wseg EXCEPT ![r][w] = NoSeg]
    /\ ret' = NoRet
    /\ UNCHANGED <<server, fnArg, fnRes, inMap, taskVars, lockVars, nruns, runPc, runSave, wrPc, evs,
                   reqs, saveVars, file, loaded, restarts>>

\* fetch returned Err(e): error_message = Some(e.to_string()).
WorkerFetchErr(r, w) ==
    /\ wpc[r][w] = "fetch"
    /\ error_message' = Some(ErrText("status 500"))
    /\ wpc' = [wpc EXCEPT ![r][w] = "fail"]
    /\ ret' = NoRet
    /\ UNCHANGED <<server, fnArg, fnRes, inMap, total_bytes, supports_range, status, pending, downloaded,
                   lockVars, nruns, runPc, runSave, wseg, wrPc, chan, evs, reqs, saveVars,
                   file, loaded, restarts>>

FailStatusKept(st) == st

\* The status a worker stores after a fetch error (line 330).
FailStatus(st) == "failed"

WorkerFailRequeue(r, w) ==
    /\ wpc[r][w] = "fail"
    /\ statusLock = 0
    /\ status' = FailStatus(status)
    /\ pending' = <<wseg[r][w]>> \o pending
    /\ evs' = [evs EXCEPT ![r] = Append(@, "failed")]
    /\ wpc' = [wpc EXCEPT ![r][w] = "done"]
    /\ wseg' = [wseg EXCEPT ![r][w] = NoSeg]
    /\ ret' = NoRet
    /\ UNCHANGED <<server, fnArg, fnRes, inMap, total_bytes, supports_range, downloaded,
                   error_message, lockVars, nruns, runPc, runSave, wrPc, chan, reqs,
                   saveVars, file, loaded, restarts>>

\* Err branch, second half: lock the status, set Failed, emit
\* download-finished(.., "failed", ..), leave the loop.
WorkerFail(r, w) ==
    /\ wpc[r][w] = "fail"
    /\ statusLock = 0
    /\ status' = FailStatus(status)
    /\ evs' = [evs EXCEPT ![r] = Append(@, "failed")]
    /\ wpc' = [wpc EXCEPT ![r][w] = "done"]
    /\ wseg' = [wseg EXCEPT ![r][w] = NoSeg]
    /\ ret' = NoRet
    /\ UNCHANGED <<server, fnArg, fnRes, inMap, total_bytes, supports_range, pending, downloaded,
                   error_message, lockVars, nruns, runPc, runSave, wrPc, chan, reqs,
                   saveVars, file, loaded, restarts>>

\* ----------------------------------------------------------------- writer

\* Some sender of run r's channel is alive: the run task's tx (until drop(tx))
\* or a worker's clone.
SendersAlive(r) == runPc[r] = "join" \/ \E w \in Workers : Active(r, w)

\* run_file_writer: File::create (truncate) and set_len(total).
WriterCreate(r) ==
    /\ wrPc[r] = "create"
    /\ file' = IF IsSome(total_bytes) THEN Zeros(Get(total_bytes)) ELSE <<>>
    /\ wrPc' = [wrPc EXCEPT ![r] = "recv"]
    /\ ret' = NoRet
    /\ UNCHANGED <<server, fnArg, fnRes, inMap, taskVars, lockVars, nruns, runPc, runSave, wpc, wseg,
                   chan, evs, reqs, saveVars, loaded, restarts>>

\* File::create returns an error: the writer ends and drops the receiver.
WriterCreateFail(r) ==
    /\ wrPc[r] = "create"
    /\ wrPc' = [wrPc EXCEPT ![r] = "failed"]
    /\ chan' = [chan EXCEPT ![r] = <<>>]
    /\ ret' = NoRet
    /\ UNCHANGED <<server, fnArg, fnRes, inMap, taskVars, lockVars, nruns, runPc, runSave, wpc, wseg,
                   evs, reqs, saveVars, file, loaded, restarts>>

\* rx.recv() yields a message: seek and write_all.
WriterWrite(r) ==
    /\ wrPc[r] = "recv"
    /\ chan[r] # <<>>
    /\ file' = WriteAt(file, Head(chan[r])[1], Head(chan[r])[2])
    /\ chan' = [chan EXCEPT ![r] = Tail(@)]
    /\ ret' = NoRet
    /\ UNCHANGED <<server, fnArg, fnRes, inMap, taskVars, lockVars, nruns, runPc, runSave, wpc, wseg,
                   wrPc, evs, reqs, saveVars, loaded, restarts>>

\* A writer that would mark the task Failed on a seek or write error.
WriterWriteFailMarks(r) ==
    /\ wrPc[r] = "recv"
    /\ chan[r] # <<>>
    /\ wrPc' = [wrPc EXCEPT ![r] = "failed"]
    /\ chan' = [chan EXCEPT ![r] = <<>>]
    /\ status' = "failed"
    /\ error_message' = Some(ErrText("write error"))
    /\ ret' = NoRet
    /\ UNCHANGED <<server, fnArg, fnRes, inMap, total_bytes, supports_range, pending, downloaded,
                   lockVars, nruns, runPc, runSave, wpc, wseg,
                   evs, reqs, saveVars, file, loaded, restarts>>

\* seek or write_all returns an error: the writer ends and drops the receiver
\* with whatever is still queued.
WriterWriteFail(r) ==
    /\ wrPc[r] = "recv"
    /\ chan[r] # <<>>
    /\ wrPc' = [wrPc EXCEPT ![r] = "failed"]
    /\ chan' = [chan EXCEPT ![r] = <<>>]
    /\ ret' = NoRet
    /\ UNCHANGED <<server, fnArg, fnRes, inMap, taskVars, lockVars, nruns, runPc, runSave, wpc, wseg,
                   evs, reqs, saveVars, file, loaded, restarts>>

\* rx.recv() yields None (every sender dropped, queue drained): sync_all, end.
WriterClose(r) ==
    /\ wrPc[r] = "recv"
    /\ chan[r] = <<>>
    /\ ~SendersAlive(r)
    /\ wrPc' = [wrPc EXCEPT ![r] = "closed"]
    /\ ret' = NoRet
    /\ UNCHANGED <<server, fnArg, fnRes, inMap, taskVars, lockVars, nruns, runPc, runSave, wpc, wseg,
                   chan, evs, reqs, saveVars, file, loaded, restarts>>

\* --------------------------------------------------------------- run task

\* for h in handles { h.await }; drop(tx).
RunJoin(r) ==
    /\ runPc[r] = "join"
    /\ \A w \in Workers : ~Active(r, w)
    /\ runPc' = [runPc EXCEPT ![r] = "awaitWriter"]
    /\ ret' = NoRet
    /\ UNCHANGED <<server, fnArg, fnRes, inMap, taskVars, lockVars, nruns, runSave, wpc, wseg, wrPc,
                   chan, evs, reqs, saveVars, file, loaded, restarts>>

ReapCompletesNonEmpty(pend) == pend # <<>>

\* The reaper's test on the queue (line 157).
ReapCompletes(pend) == pend = <<>>

\* Where the run task goes once the reaper's if-block is over: into
\* scheduler_for_save.save_tasks() (the saver r), or to the end of the closure.
AfterReap(r) == IF runSave[r] THEN "saving" ELSE "release"
SpawnSave(r) == IF runSave[r] THEN [spc EXCEPT ![r] = "lockMap"] ELSE spc

\* writer_handle.await; let mut st = task.status.lock().await: the guard
\* lives to the end of the closure.
ReapLock(r) ==
    /\ runPc[r] = "awaitWriter"
    /\ wrPc[r] \in {"closed", "failed"}
    /\ statusLock = 0
    /\ statusLock' = r
    /\ IF status = "downloading"
       THEN /\ runPc' = [runPc EXCEPT ![r] = "reapPending"]
            /\ UNCHANGED spc
       ELSE /\ runPc' = [runPc EXCEPT ![r] = AfterReap(r)]
            /\ spc' = SpawnSave(r)
    /\ ret' = NoRet
    /\ UNCHANGED <<server, fnArg, fnRes, inMap, taskVars, pendLock, mapLock, nruns, runSave, wpc, wseg,
                   wrPc, chan, evs, reqs, snapFile, nsaves, srec, file, loaded, restarts>>

\* Status still Downloading: lock the queue; when it is empty set Completed
\* and emit download-finished(.., "completed", ..).
ReapPending(r) ==
    /\ runPc[r] = "reapPending"
    /\ pendLock = 0
    /\ IF ReapCompletes(pending)
       THEN /\ status' = "completed"
            /\ evs' = [evs EXCEPT ![r] = Append(@, "completed")]
       ELSE UNCHANGED <<status, evs>>
    /\ runPc' = [runPc EXCEPT ![r] = AfterReap(r)]
    /\ spc' = SpawnSave(r)
    /\ ret' = NoRet
    /\ UNCHANGED <<server, fnArg, fnRes, inMap, total_bytes, supports_range, pending, downloaded,
                   error_message, lockVars, nruns, runSave, wpc, wseg, wrPc, chan, reqs,
                   snapFile, nsaves, srec, file, loaded, restarts>>

\* End of the closure (after save_tasks has returned, when it was called):
\* the status guard is dropped.
ReapRelease(r) ==
    /\ \/ runPc[r] = "release"
       \/ runPc[r] = "saving" /\ spc[r] = "done"
    /\ statusLock' = 0
    /\ runPc' = [runPc EXCEPT ![r] = "done"]
    /\ ret' = NoRet
    /\ UNCHANGED <<server, fnArg, fnRes, inMap, taskVars, pendLock, mapLock, nruns, runSave, wpc, wseg,
                   wrPc, chan, evs, reqs, saveVars, file, loaded, restarts>>

\* ------------------------------------------------------------- save_tasks

\* The background loop of lib.rs: when list_downloads shows a Downloading
\* task (task_to_info reads the status with try_lock), call save_tasks.
PeriodicSave ==
    /\ nsaves < MaxSaves
    /\ inMap /\ mapLock = 0 /\ statusLock = 0
    /\ status = "downloading"
    /\ nsaves' = nsaves + 1
    /\ spc' = [spc EXCEPT ![MaxRuns + nsaves + 1] = "lockMap"]
    /\ ret' = NoRet
    /\ UNCHANGED <<server, fnArg, fnRes, inMap, taskVars, lockVars, runVars, snapFile, srec, file,
                   loaded, restarts>>

\* save_tasks: self.tasks.lock().await.  With the task gone from the map
\* there is nothing to visit: the guard is dropped at once and the list to
\* write is empty.
SaveLockMap(s) ==
    /\ spc[s] = "lockMap"
    /\ mapLock = 0
    /\ IF inMap
       THEN /\ mapLock' = s
            /\ spc' = [spc EXCEPT ![s] = "status"]
       ELSE /\ mapLock' = 0
            /\ spc' = [spc EXCEPT ![s] = "writeEmpty"]
    /\ ret' = NoRet
    /\ UNCHANGED <<server, fnArg, fnRes, inMap, taskVars, statusLock, pendLock, runVars, snapFile, nsaves,
                   srec, file, loaded, restarts>>

\* from_task: let status = *task.status.lock().await.
SaveStatus(s) ==
    /\ spc[s] = "status"
    /\ statusLock = 0
    /\ srec' = [srec EXCEPT ![s].status = status]
    /\ spc' = [spc EXCEPT ![s] = "pending"]
    /\ ret' = NoRet
    /\ UNCHANGED <<server, fnArg, fnRes, inMap, taskVars, lockVars, runVars, snapFile, nsaves, file,
                   loaded, restarts>>

\* from_task: pending_segments.lock().await ... collect(): the queue is
\* copied under its mutex.
SavePending(s) ==
    /\ spc[s] = "pending"
    /\ pendLock = 0
    /\ pendLock' = s
    /\ srec' = [srec EXCEPT ![s].pending = pending]
    /\ spc' = [spc EXCEPT ![s] = "copied"]
    /\ ret' = NoRet
    /\ UNCHANGED <<server, fnArg, fnRes, inMap, taskVars, statusLock, mapLock, runVars, snapFile, nsaves, file,
                   loaded, restarts>>

\* End of that statement: the queue's guard is dropped.
SaveUnlockPending(s) ==
    /\ spc[s] = "copied"
    /\ pendLock' = 0
    /\ spc' = [spc EXCEPT ![s] = "downloaded"]
    /\ ret' = NoRet
    /\ UNCHANGED <<server, fnArg, fnRes, inMap, taskVars, statusLock, mapLock, runVars, snapFile, nsaves,
                   srec, file, loaded, restarts>>

\* from_task: downloaded_bytes = task.downloaded.load(); the map guard is
\* dropped at the end of the block.
SaveDownloaded(s) ==
    /\ spc[s] = "downloaded"
    /\ srec' = [srec EXCEPT ![s].downloaded = downloaded]
    /\ mapLock' = 0
    /\ spc' = [spc EXCEPT ![s] = "write"]
    /\ ret' = NoRet
    /\ UNCHANGED <<server, fnArg, fnRes, inMap, taskVars, statusLock, pendLock, runVars, snapFile, nsaves, file,
                   loaded, restarts>>

\* save_tasks_to_file.
SaveWrite(s) ==
    /\ spc[s] \in {"write", "writeEmpty"}
    /\ snapFile' = IF spc[s] = "write"
                   THEN << Persisted(srec[s].status, srec[s].pending, srec[s].downloaded) >>
                   ELSE <<>>
    /\ spc' = [spc EXCEPT ![s] = "done"]
    /\ srec' = [srec EXCEPT ![s] = EmptyRec]
    /\ ret' = NoRet
    /\ UNCHANGED <<server, fnArg, fnRes, inMap, taskVars, lockVars, runVars, nsaves, file, loaded, restarts>>

\* ---------------------------------------------------------------- restart

from_persistedNoProgress(p) ==
    [total_bytes |-> p.total_bytes, supports_range |-> p.supports_range,
     status |-> p.status, pending |-> p.pending_segments,
     downloaded |-> 0, error_message |-> None]

\* Task::from_persisted: every snapshot field verbatim, error_message None.
from_persisted(p) ==
    [total_bytes |-> p.total_bytes, supports_range |-> p.supports_range,
     status |-> p.status, pending |-> p.pending_segments,
     downloaded |-> p.downloaded_bytes, error_message |-> None]

\* The process ends at any moment and a new one runs Scheduler::load_from on
\* the snapshot file; the destination file stays as it is on disk.
Restart ==
    /\ restarts < MaxRestarts
    /\ snapFile # <<>>
    /\ restarts' = restarts + 1
    /\ loaded' = snapFile
    /\ LET t == from_persisted(snapFile[1])
       IN /\ total_bytes' = t.total_bytes
          /\ supports_range' = t.supports_range
          /\ status' = t.status
          /\ pending' = t.pending
          /\ downloaded' = t.downloaded
          /\ error_message' = t.error_message
    /\ inMap' = TRUE
    /\ statusLock' = 0 /\ pendLock' = 0 /\ mapLock' = 0
    /\ nruns' = 0
    /\ runPc' = [r \in Runs |-> "idle"]
    /\ runSave' = [r \in Runs |-> FALSE]
    /\ wpc' = [r \in Runs |-> [w \in Workers |-> "none"]]
    /\ wseg' = [r \in Runs |-> [w \in Workers |-> NoSeg]]
    /\ wrPc' = [r \in Runs |-> "none"]
    /\ chan' = [r \in Runs |-> <<>>]
    /\ evs' = [r \in Runs |-> <<>>]
    /\ reqs' = EmptyBag
    /\ nsaves' = 0
    /\ spc' = [s \in Savers |-> "idle"]
    /\ srec' = [s \in Savers |-> EmptyRec]
    /\ ret' = NoRet
    /\ UNCHANGED <<server, fnArg, fnRes, snapFile, file>>

\* ------------------------------------------------------------------- spec

CreateWith(maxRanges) ==
    \E sr \in BOOLEAN, tb \in {None} \cup {Some(n) : n \in 0..MaxTotal} :
        /\ Len(NewPending(sr, tb)) <= maxRanges
        /\ create_task(sr, tb)
\* Every start of one process passes the same scheduler_for_save (lib.rs).
StartWith(conns) ==
    \E mc \in conns, sfs \in BOOLEAN :
        /\ nruns > 0 => sfs = runSave[nruns]
        /\ start_download(Some(mc), sfs)
Pause == pause_task
Cancel == cancel_task

Worker ==
    \E r \in Runs, w \in Workers :
        \/ WorkerTop(r, w)
        \/ WorkerTake(r, w)
        \/ WorkerFetchOk(r, w)
        \/ WorkerSend(r, w)
        \/ WorkerFetchErr(r, w)
        \/ WorkerFail(r, w)

Writer ==
    \E r \in Runs :
        \/ WriterCreate(r)
        \/ WriterWrite(r)
        \/ WriterClose(r)

WriterFault ==
    \E r \in Runs :
        \/ WriterCreateFail(r)
        \/ WriterWriteFail(r)

RunTask ==
    \E r \in Runs :
        \/ RunJoin(r)
        \/ ReapLock(r)
        \/ ReapPending(r)
        \/ ReapRelease(r)

Save ==
    \/ PeriodicSave
    \/ \E s \in Savers :
          \/ SaveLockMap(s)
          \/ SaveStatus(s)
          \/ SavePending(s)
          \/ SaveUnlockPending(s)
          \/ SaveDownloaded(s)
          \/ SaveWrite(s)

\* Commands, runs and snapshots of one process, against an origin that
\* honours Range and a disk that does not fail.  The tasks are those created
\* with at most MaxResumeRanges ranges; they are started up to MaxRuns times
\* with at most MaxResumeConn connections.
Init == InitOn({"exact"})
Next ==
    \/ CreateWith(MaxResumeRanges)
    \/ StartWith(0..MaxResumeConn)
    \/ Pause \/ Cancel \/ Worker \/ Writer \/ RunTask \/ Save
Spec == Init /\ [][Next]_vars

\* The worker pool: any task of at most MaxTotal bytes, started once with up
\* to MaxConn connections.
NextPool ==
    \/ CreateWith(DEFAULT_CONNECTIONS)
    \/ (nruns = 0 /\ StartWith(0..MaxConn))
    \/ Pause \/ Cancel \/ Worker \/ Writer \/ RunTask \/ Save
SpecPool == Init /\ [][NextPool]_vars

\* A process that starts its task once with at most MaxResumeConn
\* connections, is ended at any moment and restarted from the snapshot file.
NextCrash ==
    \/ CreateWith(DEFAULT_CONNECTIONS)
    \/ (nruns = 0 /\ StartWith(0..MaxResumeConn))
    \/ Pause \/ Cancel \/ Worker \/ Writer \/ RunTask \/ Save
    \/ Restart
SpecCrash == Init /\ [][NextCrash]_vars

Remove == remove_task
ClearCompleted == clear_completed_tasks

\* The scheduler map: a task started once with at most MaxResumeConn
\* connections, paused, cancelled, removed or cleared at any moment.
NextMap ==
    \/ CreateWith(MaxResumeRanges)
    \/ (nruns = 0 /\ StartWith(0..MaxResumeConn))
    \/ Pause \/ Cancel \/ Remove \/ ClearCompleted
    \/ Worker \/ Writer \/ RunTask \/ Save
SpecMap == Init /\ [][NextMap]_vars

\* A disk that can fail: the writer of the run may get an error from
\* File::create, seek or write_all at any moment.
NextDisk ==
    \/ CreateWith(DEFAULT_CONNECTIONS)
    \/ (nruns = 0 /\ StartWith(0..MaxResumeConn))
    \/ Pause \/ Cancel \/ Worker \/ Writer \/ WriterFault \/ RunTask \/ Save
SpecDisk == Init /\ [][NextDisk]_vars

\* A run that is paused while it downloads and is not resumed: pause_task is
\* the only caller of save_tasks besides the runs, so nsaves > 0 tells that
\* the status has been set to Paused.
NextStop ==
    \/ CreateWith(DEFAULT_CONNECTIONS)
    \/ (nruns = 0 /\ StartWith(0..MaxConn))
    \/ (status = "downloading" /\ Pause)
    \/ Cancel \/ Worker \/ Writer \/ RunTask
    \/ \E s \in Savers :
          \/ SaveLockMap(s)
          \/ SaveStatus(s)
          \/ SavePending(s)
          \/ SaveUnlockPending(s)
          \/ SaveDownloaded(s)
          \/ SaveWrite(s)
SpecStop == Init /\ [][NextStop]_vars

\* A front end that polls get_task at any moment of a run.
NextInfo ==
    \/ CreateWith(MaxResumeRanges)
    \/ (nruns = 0 /\ StartWith(0..MaxResumeConn))
    \/ get_task
    \/ Pause \/ Cancel \/ Worker \/ Writer \/ RunTask \/ Save
SpecInfo == Init /\ [][NextInfo]_vars

\* One process whose spawned tasks all get to run: the tokio runtime polls
\* every task that is ready, a tokio Mutex serves its waiters in order, and
\* the timer of lib.rs ticks for ever.  Commands come whenever the user
\* chooses, or never.
NextLive ==
    \/ CreateWith(MaxResumeRanges)
    \/ (nruns = 0 /\ StartWith(0..MaxResumeConn))
    \/ Pause \/ Cancel \/ Worker \/ Writer \/ RunTask \/ Save
Fairness ==
    /\ WF_vars(Worker)
    /\ WF_vars(Writer)
    /\ WF_vars(RunTask)
    /\ WF_vars(Save)
SpecLive == Init /\ [][NextLive]_vars /\ Fairness

\* ------------------------------------------------- functions on their own

\* Everything of the scheduler at rest, as after Scheduler::new.
AtRest ==
    /\ server = "exact"
    /\ inMap = FALSE
    /\ total_bytes = None
    /\ supports_range = FALSE
    /\ status = "pending"
    /\ pending = <<>>
    /\ downloaded = 0
    /\ error_message = None
    /\ statusLock = 0 /\ pendLock = 0 /\ mapLock = 0
    /\ NoRuns
    /\ NoSavers
    /\ file = <<>>
    /\ snapFile = <<>>
    /\ loaded = <<>>
    /\ restarts = 0
    /\ ret = NoRet

\* Queues of ranges within [0, MaxTotal - 1], in any order.
SomeQueues ==
    {<<>>, << <<0, 0>> >>, << <<0, MaxTotal - 1>> >>,
     << <<0, 0>>, <<1, MaxTotal - 1>> >>, << <<1, MaxTotal - 1>>, <<0, 0>> >>}

\* In-memory tasks at rest.
SomeTasks ==
    [total_bytes : {None} \cup {Some(n) : n \in 0..MaxTotal},
     supports_range : BOOLEAN,
     status : TaskStatus,
     pending : SomeQueues,
     downloaded : 0..MaxTotal,
     error_message : {None, Some(ErrText("status 500"))}]

\* Task::from_persisted(PersistedTask::from_task(t)) for a task t at rest.
InitRound ==
    /\ AtRest
    /\ fnArg \in SomeTasks
    /\ fnRes = None

RoundTrip ==
    /\ fnRes = None
    /\ fnRes' = Some(from_persisted(from_task(fnArg)))
    /\ UNCHANGED <<server, fnArg, inMap, taskVars, lockVars, runVars, saveVars, file, loaded,
                   restarts, ret>>

SpecRound == InitRound /\ [][RoundTrip]_vars

\* static_segments(total, n) for any total <= MaxSegTotal and n <= MaxSegN.
InitSeg ==
    /\ AtRest
    /\ fnArg \in [total : 0..MaxSegTotal, n : 0..MaxSegN]
    /\ fnRes = None

SegCall ==
    /\ fnRes = None
    /\ fnRes' = Some(static_segments(fnArg.total, fnArg.n))
    /\ UNCHANGED <<server, fnArg, inMap, taskVars, lockVars, runVars, saveVars, file, loaded,
                   restarts, ret>>

SpecSeg == InitSeg /\ [][SegCall]_vars

\* Scheduler::create_task for any probe result with a total of at most
\* MaxNewTotal bytes.
NextNew ==
    \E sr \in BOOLEAN, tb \in {None} \cup {Some(n) : n \in 0..MaxNewTotal} :
        create_task(sr, tb)
SpecNew == Init /\ [][NextNew]_vars

\* start_download's n_workers for any max_connections up to MaxConnArg (or
\* none) on a task that supports range or not; the run task spawns one worker
\* per value of 0..n_workers.
InitConn ==
    /\ AtRest
    /\ fnArg \in [sr : BOOLEAN, mc : {None} \cup {Some(n) : n \in 0..MaxConnArg}]
    /\ fnRes = None

ConnCall ==
    /\ fnRes = None
    /\ fnRes' = Some(NWorkers(fnArg.sr, fnArg.mc))
    /\ UNCHANGED <<server, fnArg, inMap, taskVars, lockVars, runVars, saveVars, file, loaded,
                   restarts, ret>>

SpecConn == InitConn /\ [][ConnCall]_vars

\* --------------------------------------------------------------- import
\* A string is a sequence of tokens; " " is white space, "http://" and the
\* like are the characters of a scheme, "h" is any other text.  A path is the
\* sequence of its components, "/" first when it is absolute.

\* str::trim.
RECURSIVE TrimStart(_)
TrimStart(str) ==
    IF str # <<>> /\ Head(str) = " " THEN TrimStart(Tail(str)) ELSE str
RECURSIVE TrimEnd(_)
TrimEnd(str) ==
    IF str # <<>> /\ str[Len(str)] = " " THEN TrimEnd(SubSeq(str, 1, Len(str) - 1)) ELSE str
Trim(str) == TrimEnd(TrimStart(str))

\* str::starts_with.
StartsWith(str, prefix) == str # <<>> /\ Head(str) = prefix

\* The filter of import_tasks on a trimmed URL (lines 1012-1013, 1042-1043).
ImportAccepts(u) == StartsWith(u, "http://") \/ StartsWith(u, "https://")

\* Path::join: an absolute path replaces the base.
PathJoin(dir, name) == IF name # <<>> /\ Head(name) = "/" THEN name ELSE dir \o name

\* Path::parent of a path with at least one component.
PathParent(path) == SubSeq(path, 1, Len(path) - 1)

\* settings.default_save_path, or the download directory.
DefaultSaveDir == <<"/", "downloads">>

\* The directory import_tasks passes to create_task for an entry of a JSON
\* export (lines 1016-1023).
ImportDir(save_path) ==
    IF save_path = <<>> THEN DefaultSaveDir ELSE PathParent(save_path)

\* The (url, dir) pairs import_tasks builds from its input: the tasks of a
\* JSON export, or the lines of a list of URLs.  Each item also carries what
\* the probe of its URL will answer.
RECURSIVE ImportUrls(_, _)
ImportUrls(form, items) ==
    IF items = <<>> THEN <<>>
    ELSE LET it == Head(items)
             u == Trim(it.url)
         IN (IF ImportAccepts(u)
             THEN << [url |-> u,
                      dir |-> IF form = "json" THEN ImportDir(it.save_path)
                              ELSE DefaultSaveDir,
                      probe |-> it.probe] >>
             ELSE <<>>) \o ImportUrls(form, Tail(items))

\* Scheduler::create_task(url, dir, None, None) for each pair in turn: the
\* probe fails (Err, nothing added) or suggests a file name, and Task::new
\* joins it to dir.  The result is the count and the tasks added to the map.
RECURSIVE ImportCreate(_)
ImportCreate(urls) ==
    IF urls = <<>> THEN [count |-> 0, added |-> <<>>]
    ELSE LET rest == ImportCreate(Tail(urls))
             u == Head(urls)
         IN IF u.probe = <<>> THEN rest
            ELSE [count |-> rest.count + 1,
                  added |-> << [url |-> u.url, status |-> "pending",
                                save_path |-> PathJoin(u.dir, u.probe)] >> \o rest.added]

import_tasks(form, items) == ImportCreate(ImportUrls(form, items))

\* import_tasks on a list of at most MaxImport lines or on a JSON export of
\* at most two tasks.  probe is what the probe of the entry's URL answers: an
\* error (no name), a relative file name, or the absolute one of a
\* Content-Disposition header.
InitImport ==
    LET lines == {<<>>, <<" ">>, <<"http://", "h">>, <<" ", "https://", "h", " ">>,
                  <<"ftp://", "h">>, <<"h", "http://">>, <<"HTTP://", "h">>}
        probes == {<<>>, <<"f">>, <<"/", "tmp", "f">>}
        texts == [form : {"lines"},
                  items : UNION {[1..n -> [url : lines, save_path : {<<>>},
                                           probe : probes]] : n \in 0..MaxImport}]
        exports == [form : {"json"},
                    items : UNION {[1..n -> [url : {<<"http://", "h">>, <<"ftp://", "h">>},
                                             save_path : {<<>>, <<"/", "other", "f">>},
                                             probe : {<<>>, <<"f">>}]] : n \in 0..2}]
    IN /\ AtRest
       /\ fnArg \in texts \cup exports
       /\ fnRes = None

ImportCall ==
    /\ fnRes = None
    /\ fnRes' = Some(import_tasks(fnArg.form, fnArg.items))
    /\ UNCHANGED <<server, fnArg, inMap, taskVars, lockVars, runVars, saveVars, file, loaded,
                   restarts, ret>>

SpecImport == InitImport /\ [][ImportCall]_vars

\* ------------------------------------------------------------ file names
\* A Content-Disposition header is the sequence of its parts between ';';
\* a part is [eq, key, val]: whether it has an '=', the text before it and the
\* text after it, both trimmed.  In a value "utf-8''" and "UTF-8''" are the
\* characters of a charset prefix, "%20" those of a percent-encoded space,
\* "q" a double quote and any other token a plain character.

\* str::eq_ignore_ascii_case(key, name) for the keys of the model.
EqIgnoreCase(key, name) ==
    (IF key = "Filename*" THEN "filename*" ELSE key) = name

\* str::trim_matches('"').
RECURSIVE TrimQuotes(_)
TrimQuotes(val) ==
    IF val # <<>> /\ Head(val) = "q" THEN TrimQuotes(Tail(val))
    ELSE IF val # <<>> /\ val[Len(val)] = "q" THEN TrimQuotes(SubSeq(val, 1, Len(val) - 1))
    ELSE val

\* urlencoding::decode.
PctDecode(val) == [i \in 1..Len(val) |-> IF val[i] = "%20" THEN " " ELSE val[i]]

\* parse_content_disposition_filename: the first part, in header order, whose
\* key is filename* or filename decides.
RECURSIVE parse_content_disposition_filename(_)
parse_content_disposition_filename(disp) ==
    IF disp = <<>> THEN None
    ELSE LET part == Head(disp)
             val == TrimQuotes(part.val)
         IN IF part.eq /\ EqIgnoreCase(part.key, "filename*")
            THEN IF val # <<>> /\ Head(val) = "utf-8''"
                 THEN Some(PctDecode(Tail(val)))
                 ELSE Some(val)
            ELSE IF part.eq /\ EqIgnoreCase(part.key, "filename")
            THEN Some(val)
            ELSE parse_content_disposition_filename(Tail(disp))

\* url_path_basename: trim_end_matches('/'), then what follows the last '/'.
\* rsplit yields at least one piece, so the "download" default is never taken.
RECURSIVE url_path_basename(_)
url_path_basename(path) ==
    IF path # <<>> /\ path[Len(path)] = "/"
    THEN url_path_basename(SubSeq(path, 1, Len(path) - 1))
    ELSE LET slashes == {i \in 1..Len(path) : path[i] = "/"}
             last == IF slashes = {} THEN 0
                     ELSE CHOOSE i \in slashes : \A j \in slashes : j <= i
         IN SubSeq(path, last + 1, Len(path))

\* probe_with_client, lines 119-123: header is Option<the parts>.
suggested_filename(header, path) ==
    LET parsed == IF IsSome(header)
                  THEN parse_content_disposition_filename(Get(header)) ELSE None
    IN IF IsSome(parsed) THEN Get(parsed) ELSE url_path_basename(path)

\* suggested_filename for any header of at most MaxParts parts (or none)
\* and a URL path with or without a last component.
InitName ==
    LET vals == {<<"a">>, <<"q", "a", "q">>, <<"utf-8''", "b", "%20">>,
                 <<"UTF-8''", "b", "%20">>}
        parts == [eq : {TRUE}, key : {"filename", "filename*", "Filename*", "name"},
                  val : vals]
                 \cup {[eq |-> FALSE, key |-> "attachment", val |-> <<>>]}
        paths == {<<"/">>, <<"/", "a">>, <<"/", "d", "/", "a", "/">>}
    IN /\ AtRest
       /\ fnArg \in [header : {None} \cup {Some(h) : h \in UNION {[1..n -> parts] :
                                                                n \in 1..MaxParts}},
                     path : paths]
       /\ fnRes = None

NameCall ==
    /\ fnRes = None
    /\ fnRes' = Some(suggested_filename(fnArg.header, fnArg.path))
    /\ UNCHANGED <<server, fnArg, inMap, taskVars, lockVars, runVars, saveVars, file, loaded,
                   restarts, ret>>

SpecName == InitName /\ [][NameCall]_vars

\* ------------------------------------------------------------------ probe
\* A header is Option<value>; a value is <<"n", k>>, the decimal text of k,
\* or <<"x">>, a text that is no number.

\* str::parse::<u64>().ok() on a header that may be absent.
HeaderU64(h) == IF IsSome(h) /\ Get(h)[1] = "n" THEN Some(Get(h)[2]) ELSE None

\* probe_with_client: head is the HEAD response (status, content_length,
\* accept_ranges = the Accept-Ranges header is "bytes"), get the response to
\* GET with Range: bytes=0-0 (status, content_length, content_range_total =
\* what follows the '/' of Content-Range), which is requested only when the
\* HEAD response gave no total.
probe_with_client(head, get) ==
    LET total0 == HeaderU64(head.content_length)
        sr == IF total0 = None /\ get.status = 206 THEN TRUE ELSE head.accept_ranges
        total1 == IF total0 # None THEN total0
                  ELSE IF get.status = 206
                       THEN IF IsSome(get.content_range_total)
                            THEN HeaderU64(get.content_range_total) ELSE total0
                  ELSE IF get.status = 200 THEN HeaderU64(get.content_length)
                  ELSE total0
        total2 == IF ~sr /\ head.status = 200
                  THEN HeaderU64(head.content_length) ELSE total1
    IN [supports_range |-> sr, total_bytes |-> total2]

\* probe_with_client on any pair of responses.
InitProbe ==
    LET values == {None, Some(<<"n", 5>>), Some(<<"x">>)}
    IN /\ AtRest
       /\ fnArg \in [head : [status : {200, 405}, content_length : values,
                             accept_ranges : BOOLEAN],
                     get : [status : {200, 206, 404}, content_length : values,
                            content_range_total : values]]
       /\ fnRes = None

ProbeCall ==
    /\ fnRes = None
    /\ fnRes' = Some(probe_with_client(fnArg.head, fnArg.get))
    /\ UNCHANGED <<server, fnArg, inMap, taskVars, lockVars, runVars, saveVars, file, loaded,
                   restarts, ret>>

SpecProbe == InitProbe /\ [][ProbeCall]_vars

\* ----------------------------------------------------------------- claims

ActiveWorkers == {rw \in Runs \X Workers : Active(rw[1], rw[2])}

\* Nothing of any run is left: no worker in its loop, no writer alive, no
\* message queued.
Quiescent ==
    \A r \in Runs :
        /\ \A w \in Workers : ~Active(r, w)
        /\ wrPc[r] \in {"none", "closed", "failed"}
        /\ chan[r] = <<>>

Source == IF IsSome(total_bytes) THEN Bytes(0, Get(total_bytes) - 1) ELSE <<>>

\* C1: a start_download (or resume_task) call succeeds exactly when the task
\* exists with status Pending or Paused, and then sets Downloading and spawns
\* one run (writer and workers); any other call returns an error and leaves
\* the status and every run untouched.
C1_StartGuard ==
    [][ret'.op = "start" =>
          IF inMap /\ status \in {"pending", "paused"}
          THEN /\ ret'.ok
               /\ status' = "downloading"
               /\ nruns' = nruns + 1
               /\ wrPc'[nruns'] = "create"
               /\ \E w \in Workers : wpc'[nruns'][w] = "top"
          ELSE /\ ~ret'.ok
               /\ status' = status
               /\ UNCHANGED runVars]_vars

\* A resumed task is Downloading and a further start was just rejected.
C1_Witness ==
    /\ ret = Ret("start", FALSE)
    /\ inMap /\ status = "downloading" /\ nruns = 2

\* C2: a Completed task has an empty queue and, when the total is known,
\* downloaded = total_bytes.
C2_CompletedDrained ==
    status = "completed" =>
        /\ pending = <<>>
        /\ IsSome(total_bytes) => downloaded = Get(total_bytes)

\* C3: against an exact origin and without a fetch failure, the writer of a
\* resumed run keeps the bytes the first run had written, and once the task is
\* Completed and its runs are over the file is the source and downloaded is
\* the file size.
C3_ResumeKeepsFile ==
    [][/\ (wrPc[1] = "closed" /\ wrPc[2] = "create" /\ wrPc'[2] = "recv") =>
              \A i \in 1..Len(file) :
                  file[i] # 0 => (i <= Len(file') /\ file'[i] = file[i])
       /\ (nruns = 2 /\ status = "completed" /\ error_message = None /\ Quiescent)' =>
              (file = Source /\ downloaded = Len(file))']_vars

\* C4: downloaded <= total_bytes whenever the total is known.
C4_DownloadedBounded ==
    IsSome(total_bytes) => downloaded <= Get(total_bytes)

\* The snapshot this process was loaded from was taken with k ranges
\* completed: it lists the remaining ranges and counts the bytes of the others.
LoadedAfterK ==
    /\ restarts = 1
    /\ IsSome(loaded[1].total_bytes)
    /\ loaded[1].status \in {"pending", "paused"}
    /\ loaded[1].downloaded_bytes + SumLen(loaded[1].pending_segments)
          = Get(loaded[1].total_bytes)

\* The file on disk holds the source bytes of every range the loaded snapshot
\* counts as completed.
CompletedOnDisk ==
    /\ Len(file) = Get(loaded[1].total_bytes)
    /\ \A i \in 1..Len(file) :
          (\A k \in 1..Len(loaded[1].pending_segments) :
              ~(loaded[1].pending_segments[k][1] <= i - 1
                  /\ i - 1 <= loaded[1].pending_segments[k][2]))
              => file[i] = Source[i]

\* C5: after reloading such a snapshot and starting the task, only the
\* remaining ranges are requested, and the writer of the new run keeps the
\* bytes of the completed ranges, without which the final file cannot match
\* the source.
C5_CrashResume ==
    [][LoadedAfterK =>
          /\ \A seg \in BagToSet(reqs') :
                \E i \in 1..Len(loaded[1].pending_segments) :
                    loaded[1].pending_segments[i] = seg
          /\ (wrPc[1] = "create" /\ wrPc'[1] = "recv" /\ CompletedOnDisk)
                => CompletedOnDisk']_vars

\* C6: load_from leaves no task Downloading (a persisted Downloading is
\* loaded as Paused), and the first start after such a load succeeds.
C6_LoadNormalizes ==
    [][/\ restarts' = restarts + 1 => status' # "downloading"
       /\ (ret'.op = "start" /\ restarts = 1 /\ nruns = 0
              /\ loaded[1].status = "downloading") => ret'.ok]_vars

\* The lifecycle of the scheduler state machine.
Lifecycle ==
    {<<"pending", "downloading">>, <<"paused", "downloading">>,
     <<"downloading", "paused">>, <<"downloading", "completed">>,
     <<"downloading", "failed">>}
        \cup {<<st, "cancelled">> : st \in TaskStatus}

\* C7: every change of the status is a transition of the lifecycle.
C7_Lifecycle ==
    [][status' # status => <<status, status'>> \in Lifecycle]_vars

\* C8: a run that has ended (workers joined, writer awaited, reaper done)
\* without a fetch failure, a writer failure, a pause or a cancel leaves the
\* task Completed with an empty queue.
C8_RunCompletes ==
    \A r \in Runs :
        (/\ runPc[r] \in {"release", "saving", "done"}
         /\ wrPc[r] = "closed"
         /\ error_message = None
         /\ status \notin {"paused", "cancelled", "failed"})
            => (status = "completed" /\ pending = <<>>)

\* C9: a fetch error sets error_message to a non-empty text; the worker then
\* sets the status to Failed, emits download-finished "failed" and leaves
\* without putting the range back, and no range is requested twice.
C9_FetchError ==
    [][\A r \in Runs, w \in Workers :
          /\ (wpc[r][w] = "fetch" /\ wpc'[r][w] = "fail") =>
                (IsSome(error_message') /\ Get(error_message') # "")
          /\ (wpc[r][w] = "fail" /\ wpc'[r][w] # "fail") =>
                /\ IsSome(error_message') /\ Get(error_message') # ""
                /\ status' = "failed"
                /\ evs'[r] = Append(evs[r], "failed")
                /\ wpc'[r][w] = "done"
                /\ pending' = pending
                /\ \A seg \in BagToSet(reqs') : CopiesIn(seg, reqs') = 1]_vars

\* A worker has gone through the Err branch while another range was queued.
C9_Witness ==
    /\ status = "failed" /\ IsSome(error_message) /\ pending # <<>>
    /\ \E r \in Runs : evs[r] = <<"failed">> /\ \E w \in Workers : wpc[r][w] = "done"

\* C10: a task without range support has at most one active worker at any
\* moment and never more than one queued range.
C10_SingleWorker ==
    ~supports_range => (Cardinality(ActiveWorkers) <= 1 /\ Len(pending) <= 1)

\* The runs whose writer owns the destination file: run_file_writer has
\* created it and has not returned.
OpenWriters == {r \in Runs : wrPc[r] = "recv"}

\* C11: at most one writer of the task holds the destination file at any
\* time, for any sequence of start, pause and resume.
C11_OneWriter ==
    Cardinality(OpenWriters) <= 1

\* C12: pause_task on a task of the map returns ok; it stores Paused when the
\* status is Downloading and leaves any other status as it is, and it never
\* touches downloaded or pending_segments.
C12_PauseFrame ==
    [][(ret'.op = "pause" /\ inMap) =>
          /\ ret'.ok
          /\ status' = (IF status = "downloading" THEN "paused" ELSE status)
          /\ downloaded' = downloaded
          /\ pending' = pending]_vars

\* pause_task has just returned on a task that was loaded as Paused and not
\* started since.
C12_Witness ==
    /\ ret = Ret("pause", TRUE)
    /\ restarts = 1 /\ nruns = 0
    /\ loaded[1].status = "paused" /\ status = "paused"

\* C13: cancel_task on a task of the map stores Cancelled and leaves the
\* destination file alone, and a Cancelled status is never changed again.
C13_CancelStays ==
    [][/\ (ret'.op = "cancel" /\ inMap) =>
              (ret'.ok /\ status' = "cancelled" /\ file' = file)
       /\ status = "cancelled" => status' = "cancelled"]_vars

\* remove_task has removed the task (clear_completed_tasks removes only a
\* Completed task, and nothing changes that status afterwards).
RemovedByRemove == spc[RemoveSaver] # "idle" /\ status # "completed"

\* No save_tasks call is in progress.
SavesOver == \A s \in Savers : spc[s] \in {"idle", "done"}

\* C14: remove_task on a task of the map returns ok and takes it out of the
\* map; on an unknown id it returns an error and changes nothing; and once
\* the task is removed and no save is in progress, the snapshot file holds no
\* record of it.
C14_RemovePersists ==
    [][/\ ret'.op = "remove" =>
              IF inMap
              THEN ret'.ok /\ ~inMap'
              ELSE ~ret'.ok /\ UNCHANGED <<inMap, taskVars, saveVars>>
       /\ (RemovedByRemove /\ SavesOver)' => (snapFile = <<>>)']_vars

\* C15: clear_completed_tasks removes the task exactly when its status is
\* Completed at the time of the call, returns the number of tasks removed,
\* changes no task, and starts a snapshot exactly when it removed one.
C15_ClearExact ==
    [][ret'.op = "clear" =>
          /\ ret'.ok
          /\ UNCHANGED taskVars
          /\ IF inMap /\ status = "completed"
             THEN /\ ~inMap' /\ ret'.n = 1
                  /\ spc'[RemoveSaver] = "lockMap"
             ELSE /\ inMap' = inMap /\ ret'.n = 0
                  /\ spc' = spc]_vars

Covered(segs) == UNION {segs[i][1]..segs[i][2] : i \in 1..Len(segs)}

\* C17: for total > 0 and n > 0, static_segments(total, n) is a list of
\* min(n, total) ranges, each with start <= end, in increasing order and
\* disjoint, that cover exactly [0, total-1]; for total = 0 or n = 0 it is
\* empty.
C17_Segments ==
    IsSome(fnRes) =>
        LET segs == Get(fnRes)
            total == fnArg.total
            n == fnArg.n
        IN IF total = 0 \/ n = 0
           THEN segs = <<>>
           ELSE /\ Len(segs) = (IF n < total THEN n ELSE total)
                /\ \A i \in 1..Len(segs) : segs[i][1] <= segs[i][2]
                /\ \A i \in 1..(Len(segs) - 1) : segs[i][2] < segs[i + 1][1]
                /\ Covered(segs) = 0..(total - 1)

\* A split with a remainder: 10 bytes in 3 pieces, the last one longer.
C17_Witness ==
    /\ IsSome(fnRes)
    /\ fnArg.total = 10 /\ fnArg.n = 3
    /\ Get(fnRes) = << <<0, 2>>, <<3, 5>>, <<6, 9>> >>

\* The ranges of segs have start <= end, are pairwise disjoint and, for a
\* known total tb, lie within [0, total-1].
WellFormed(segs, tb) ==
    /\ \A i \in 1..Len(segs) : segs[i][1] <= segs[i][2]
    /\ \A i, j \in 1..Len(segs) :
          i # j => (segs[i][2] < segs[j][1] \/ segs[j][2] < segs[i][1])
    /\ IsSome(tb) => Covered(segs) \subseteq 0..(Get(tb) - 1)

\* C18: the queue of the task is well formed in every state, and so is the
\* queue of every record of the snapshot file: across dequeues, snapshots
\* and reloads.
C18_PendingWellFormed ==
    /\ WellFormed(pending, total_bytes)
    /\ \A i \in 1..Len(snapFile) :
          WellFormed(snapFile[i].pending_segments, snapFile[i].total_bytes)

\* A task reloaded with two queued ranges, one of them dequeued since.
C18_Witness ==
    /\ restarts = 1
    /\ Len(loaded[1].pending_segments) = 2
    /\ Len(pending) = 1
    /\ BagCardinality(reqs) = 1

\* [0, total-1] cut into k pieces of total \div k bytes, the last piece
\* taking the remainder.
EqualPieces(total, k) ==
    [i \in 1..k |-> <<(i - 1) * (total \div k),
                      IF i = k THEN total - 1 ELSE i * (total \div k) - 1>>]

\* The queue of a new task made of `pieces` ranges when range is supported.
NewTaskIs(pieces) ==
    /\ status = "pending"
    /\ downloaded = 0
    /\ IF IsSome(total_bytes) /\ Get(total_bytes) > 0
       THEN IF supports_range
            THEN pending = EqualPieces(Get(total_bytes), pieces)
            ELSE pending = << <<0, Get(total_bytes) - 1>> >>
       ELSE pending = <<>>

\* C19 as stated: a new range-supporting task of known positive size has the
\* 8 equal pieces of [0, total-1] in its queue.
C19_EightPieces ==
    inMap => NewTaskIs(8)

\* C19: a new task is Pending with downloaded = 0; its queue holds the
\* min(8, total) equal pieces of [0, total-1] (the last one taking the
\* remainder) when range is supported and the total is known and positive,
\* the single range [0, total-1] when range is not supported and the total
\* is known and positive, and nothing when the total is unknown or 0.
C19_NewTask ==
    inMap => NewTaskIs(IF IsSome(total_bytes) /\ Get(total_bytes) < 8
                       THEN Get(total_bytes) ELSE 8)

\* A new range-supporting task of 5 bytes: five ranges of one byte.
C19_Witness ==
    /\ inMap /\ supports_range /\ total_bytes = Some(5)
    /\ pending = << <<0, 0>>, <<1, 1>>, <<2, 2>>, <<3, 3>>, <<4, 4>> >>

\* The ranges of the list segs, each requested once.
OnceEach(segs) == SetToBag({segs[i] : i \in 1..Len(segs)})

\* The workers start_download spawned for the first run.
Spawned == Cardinality({w \in Workers : wpc[1][w] # "none"})

C21_WorkerCount ==
    IsSome(fnRes) =>
        Get(fnRes) = IF ~fnArg.sr THEN 1
                     ELSE IF fnArg.mc = None THEN 8
                     ELSE IF Get(fnArg.mc) = 0 THEN 1
                     ELSE IF Get(fnArg.mc) > 32 THEN 32
                     ELSE Get(fnArg.mc)

\* max_connections = 33 on a range-supporting task: 32 workers.
C21_Witness ==
    /\ IsSome(fnRes) /\ fnArg.sr /\ fnArg.mc = Some(33) /\ Get(fnRes) = 32

\* C22: a task created with unknown total_bytes has an empty queue, issues no
\* fetch and keeps downloaded = 0; once started it reaches Completed unless
\* it is paused or cancelled.
C22_UnknownTotal ==
    /\ [](inMap /\ total_bytes = None =>
            pending = <<>> /\ reqs = EmptyBag /\ downloaded = 0)
    /\ (inMap /\ total_bytes = None /\ status = "downloading")
           ~> (status \in {"completed", "paused", "cancelled"})

\* A task of unknown size completed by its run, with nothing fetched.
C22_Witness ==
    /\ inMap /\ total_bytes = None /\ status = "completed"
    /\ nruns = 1 /\ evs[1] = <<"completed">>
    /\ reqs = EmptyBag /\ downloaded = 0

\* path lies under the directory dir.
Under(path, dir) ==
    Len(path) > Len(dir) /\ SubSeq(path, 1, Len(dir)) = dir

\* C23: import_tasks returns the number of tasks it added; every task added
\* comes from an entry whose trimmed URL starts with http:// or https://, is
\* Pending, and has its save path under the default save directory.
C23_Import ==
    IsSome(fnRes) =>
        LET res == Get(fnRes)
        IN /\ res.count = Len(res.added)
           /\ \A i \in 1..Len(res.added) :
                 /\ res.added[i].url[1] \in {"http://", "https://"}
                 /\ \E k \in 1..Len(fnArg.items) :
                       Trim(fnArg.items[k].url) = res.added[i].url
                 /\ res.added[i].status = "pending"
                 /\ Under(res.added[i].save_path, DefaultSaveDir)

\* The parts of the header whose key, whatever its case, is name.
PartsNamed(name) ==
    IF IsSome(fnArg.header)
    THEN {i \in 1..Len(Get(fnArg.header)) :
             /\ Get(fnArg.header)[i].eq
             /\ Get(fnArg.header)[i].key \in
                   (IF name = "filename*" THEN {"filename*", "Filename*"} ELSE {name})}
    ELSE {}

\* The value of a part without its quotes, its charset prefix and its
\* percent-encoding.
Decoded(val) ==
    LET v == SelectSeq(val, LAMBDA c : c # "q")
        body == IF v # <<>> /\ v[1] \in {"utf-8''", "UTF-8''"} THEN Tail(v) ELSE v
    IN [i \in 1..Len(body) |-> IF body[i] = "%20" THEN " " ELSE body[i]]

\* C24: the suggested file name is the decoded filename* parameter when the
\* header has one, wherever it stands; else the filename parameter; else the
\* basename of the URL path; else "download"; it is never empty.
C24_FilenameOrder ==
    IsSome(fnRes) =>
        LET h == Get(fnArg.header)
            star == PartsNamed("filename*")
            plain == PartsNamed("filename")
            first(S) == CHOOSE i \in S : \A j \in S : i <= j
            base == SelectSeq(fnArg.path, LAMBDA c : c # "/")
        IN /\ Get(fnRes) # <<>>
           /\ Get(fnRes) =
                 IF star # {} THEN Decoded(h[first(star)].val)
                 ELSE IF plain # {} THEN SelectSeq(h[first(plain)].val, LAMBDA c : c # "q")
                 ELSE IF base # <<>> THEN <<base[Len(base)]>>
                 ELSE <<"download">>

\* C25: when the HEAD response carries no Content-Length, a 200 answer to
\* the ranged GET gives supports_range = false and the GET's Content-Length
\* (when it has one) as total_bytes; a 206 answer gives supports_range = true
\* and the total of Content-Range as total_bytes.
C25_ProbeFallback ==
    (IsSome(fnRes) /\ fnArg.head.content_length = None) =>
        LET res == Get(fnRes)
            get == fnArg.get
        IN /\ get.status = 200 =>
                /\ ~res.supports_range
                /\ (IsSome(get.content_length) /\ Get(get.content_length)[1] = "n")
                      => res.total_bytes = Some(Get(get.content_length)[2])
           /\ get.status = 206 =>
                /\ res.supports_range
                /\ (IsSome(get.content_range_total) /\ Get(get.content_range_total)[1] = "n")
                      => res.total_bytes = Some(Get(get.content_range_total)[2])

\* The run task r waits inside save_tasks (from_task's status.lock().await,
\* with the map guard taken) for the status mutex whose guard it took itself
\* in the reaper and drops only when its closure ends: it can take no further
\* step, and no command that locks the map or the status can either.
RunBlocked(r) ==
    /\ runPc[r] = "saving"
    /\ spc[r] = "status"
    /\ statusLock = r
    /\ mapLock = r

\* C26: no scheduler operation blocks for ever: no run task waits for a
\* mutex it holds itself while keeping the map and status mutexes from every
\* later command.
C26_NoRunBlocked ==
    \A r \in Runs : ~RunBlocked(r)

\* C27: once a run has ended and its run task has come to rest in the
\* save_tasks call that ends it, the snapshot file holds the task's record
\* with the status the task has.
C27_SnapshotAfterRun ==
    \A r \in Runs :
        (inMap /\ RunBlocked(r)) =>
            /\ snapFile # <<>>
            /\ snapFile[1].status = status

\* C28: a worker leaves its loop, other than after a fetch error, only when
\* it has read a status in {Paused, Cancelled, Completed}, or the queue is
\* empty at its dequeue attempt, or its send to the writer fails; never
\* because the queue's mutex is held while ranges remain.
C28_WorkerExit ==
    [][\A r \in Runs, w \in Workers :
          (Active(r, w) /\ wpc'[r][w] = "done") =>
              \/ wpc[r][w] = "top" /\ status \in {"paused", "cancelled", "completed"}
              \/ wpc[r][w] = "take" /\ pending = <<>>
              \/ wpc[r][w] = "send" /\ wrPc[r] \notin {"create", "recv"}
              \/ wpc[r][w] = "fail"]_vars

\* C29: when nothing of any run is left (workers out of their loops, writers
\* ended, channels empty, every reaper past its status update), the task is
\* not Downloading.
C29_NoOrphanDownloading ==
    (/\ inMap
     /\ Quiescent
     /\ \A r \in Runs : runPc[r] \in {"idle", "saving", "release", "done"})
        => status # "downloading"

\* C30: a Completed task has every range that was dequeued for it in the
\* destination file, so a task whose writer ended early is not Completed.
C30_CompletedWritten ==
    status = "completed" =>
        /\ \A r \in Runs : wrPc[r] # "failed"
        /\ \A seg \in BagToSet(reqs) :
              \A i \in (seg[1] + 1)..(seg[2] + 1) : i <= Len(file) /\ file[i] = i

\* C31: downloaded grows only in a step in which the writer channel accepts
\* the buffer: it never counts bytes whose send has not succeeded.
C31_CountAfterSend ==
    [][downloaded' > downloaded =>
          \E r \in Runs : Len(chan'[r]) = Len(chan[r]) + 1]_vars

\* C32: the record of a snapshot does not count a range in downloaded_bytes
\* and list it in pending_segments as well: for a known total,
\* downloaded_bytes plus the summed length of pending_segments is at most
\* total_bytes.
C32_SnapshotConsistent ==
    (snapFile # <<>> /\ IsSome(snapFile[1].total_bytes)) =>
        snapFile[1].downloaded_bytes + SumLen(snapFile[1].pending_segments)
            <= Get(snapFile[1].total_bytes)

\* The ranges of the queue pend.
InQueue(pend) == {pend[i] : i \in 1..Len(pend)}

C34_FailedStopsWork ==
    [][status = "failed" =>
          /\ pending' = pending
          /\ reqs' = reqs]_vars

\* C35: a run emits at most one download-finished event; no task gets both
\* a "completed" and a "failed" event; and when the reaper of a run is done,
\* the event the run emitted names the status the task then has.
C35_OneFinishedEvent ==
    /\ [](/\ \A r \in Runs : Len(evs[r]) <= 1
          /\ ~(/\ \E r \in Runs : \E i \in 1..Len(evs[r]) : evs[r][i] = "completed"
               /\ \E r \in Runs : \E i \in 1..Len(evs[r]) : evs[r][i] = "failed"))
    /\ [][\A r \in Runs :
             (/\ runPc[r] \in {"awaitWriter", "reapPending"}
              /\ runPc'[r] \in {"saving", "release"}
              /\ evs'[r] # <<>>)
                => evs'[r][Len(evs'[r])] = status']_vars

\* C36: after a pause that is not followed by a resume, a buffer that was
\* being fetched is still sent to the writer and written at the start offset
\* of its range, and a worker that comes to the head of its loop leaves: it
\* starts no fetch beyond the one it had already committed to.
C36_StopIsCooperative ==
    [][nsaves > 0 =>
          /\ \A r \in Runs, w \in Workers :
                /\ (wpc[r][w] = "send" /\ wpc'[r][w] # "send" /\ wrPc[r] \in {"create", "recv"})
                      => chan'[r] = Append(chan[r], <<wseg[r][w][1],
                                                     Bytes(wseg[r][w][1], wseg[r][w][2])>>)
                /\ (wpc[r][w] = "top" /\ wpc'[r][w] # "top") => wpc'[r][w] = "done"
          /\ \A r \in Runs :
                (wrPc[r] = "recv" /\ chan[r] # <<>> /\ chan'[r] = Tail(chan[r])) =>
                    \A k \in 1..Len(Head(chan[r])[2]) :
                        file'[Head(chan[r])[1] + k] = Head(chan[r])[2][k]]_vars

\* C37: the queue is FIFO and its ranges are indivisible: the queue of a task
\* changes only by losing its first range, whole, to exactly one worker, which
\* requests exactly that range; no range is requested twice in a process, and
\* no two workers hold the same range.
C37_FifoIndivisible ==
    /\ [](/\ \A seg \in BagToSet(reqs) : CopiesIn(seg, reqs) = 1
          /\ \A a, b \in Runs \X Workers :
                (a # b /\ wseg[a[1]][a[2]] # NoSeg)
                    => wseg[a[1]][a[2]] # wseg[b[1]][b[2]])
    /\ [][(pending' # pending /\ ret'.op # "create") =>
             /\ pending # <<>>
             /\ pending' = Tail(pending)
             /\ reqs' = reqs (+) SetToBag({Head(pending)})
             /\ Cardinality({a \in Runs \X Workers :
                               wseg'[a[1]][a[2]] # wseg[a[1]][a[2]]}) = 1
             /\ \E a \in Runs \X Workers :
                   /\ wseg[a[1]][a[2]] = NoSeg
                   /\ wseg'[a[1]][a[2]] = Head(pending)]_vars

\* Two workers hold the two ranges of a task, taken in queue order.
C37_Witness ==
    /\ pending = <<>>
    /\ \E w, v \in Workers :
          /\ w # v /\ wpc[1][w] = "send" /\ wpc[1][v] = "fetch"
          /\ wseg[1][w] = <<0, 0>> /\ wseg[1][v] = <<1, 1>>

\* C38: the status get_task (or list_downloads) reports for a task is the
\* status the task has when the call reads it.
C38_ReportedStatus ==
    [][(ret'.op = "get" /\ ret'.ok) => ret'.status = status]_vars


\* C39: the downloaded counter of a task never decreases: every step of a
\* worker, of pause, resume (start_download), cancel, the writer, the run
\* task and its reaper, and of a save leaves it equal or larger.
C39_DownloadedMonotone ==
    [][downloaded' >= downloaded]_vars

\* resume has just started the second run of a task whose counter is
\* positive: bytes were counted by a worker of the first run, then the task
\* was paused and resumed.
C39_Witness ==
    /\ ret.op = "start" /\ ret.ok
    /\ nruns = 2
    /\ downloaded > 0


\* C40: the step in which a writer fails changes neither the status nor
\* error_message and emits no event; the failed writer stays terminated with
\* its receiver dropped, so nothing is queued any more, and a worker that
\* reaches its send after the failure leaves its loop there.
C40_WriterFailure ==
    [][\A r \in Runs :
          /\ (wrPc[r] # "failed" /\ wrPc'[r] = "failed") =>
                /\ status' = status
                /\ error_message' = error_message
                /\ evs' = evs
                /\ chan'[r] = <<>>
          /\ wrPc[r] = "failed" =>
                /\ wrPc'[r] = "failed"
                /\ chan'[r] = <<>>
                /\ \A w \in Workers :
                      (wpc[r][w] = "send" /\ wpc'[r][w] # "send") => wpc'[r][w] = "done"]_vars

\* The writer of run 1 failed after File::create had succeeded (a seek or
\* write error), every worker has left its loop without a fetch error, and
\* the run task has passed the reaper: the task is not Failed and carries no
\* error_message.
C40_Witness ==
    /\ wrPc[1] = "failed"
    /\ file # <<>>
    /\ downloaded > 0
    /\ \A w \in Workers : ~Active(1, w)
    /\ runPc[1] \in {"release", "saving", "done"}
    /\ status # "failed"
    /\ error_message = None

====
